---- MODULE Spec2Model ----
(***************************************************************************)
(* The server actions of the dashboard (createInvoice, updateInvoice,      *)
(* deleteInvoice, addCustomer, deleteCustomer, authenticate) as a state    *)
(* machine over one request: the submitted form, the statements and        *)
(* framework calls the handler makes, in order, and how the handler ends.  *)
(*                                                                         *)
(* Representation.                                                         *)
(*  - A form field read with formData.get is Null (no such entry) or       *)
(*    Str(s).  The amount and the email are sequences of one-character     *)
(*    strings, so that Number(...) and the email pattern are computed on   *)
(*    the characters; the other fields are drawn from small sets.          *)
(*  - A number is the decimal mant / 10^scale, or NaN.  Arithmetic on it   *)
(*    is exact: the rounding of the IEEE-754 product is not modelled.      *)
(*  - effects is the trace of the calls a handler makes on its             *)
(*    collaborators (sql, console.error, revalidatePath, redirect).        *)
(***************************************************************************)
EXTENDS Integers, Sequences, FiniteSets, TLC

VARIABLES pc, request, now, effects, result

vars == <<pc, request, now, effects, result>>

----------------------------------------------------------------------------
(* Bounds of the model *)

MaxAmountLen == 4
MaxEmailLen == 6
MaxClock == 36

AmountChars == {"-", ".", "0", "5"}
EmailChars == {"a", "@", "."}

StringsOver(A, n) == UNION {[1..k -> A] : k \in 0..n}

----------------------------------------------------------------------------
(* Form fields *)

Null == [isNull |-> TRUE]
Str(s) == [isNull |-> FALSE, s |-> s]

CustomerIdInputs == {Null, Str(""), Str("c1")}
StatusInputs == {Null, Str("pending"), Str("paid"), Str("x"), Str("")}
AmountInputs == {Null} \cup {Str(s) : s \in StringsOver(AmountChars, MaxAmountLen)}
NameInputs == {Null, Str(""), Str("Ada")}
EmailInputs == {Null} \cup {Str(s) : s \in StringsOver(EmailChars, MaxEmailLen)}
Ids == {"", "i1", "no-such-id"}

InvoiceForms == [customerId : CustomerIdInputs, amount : AmountInputs, status : StatusInputs]
CustomerForms == [name : NameInputs, email : EmailInputs]

FormDataGet(formData, key) == formData[key]

----------------------------------------------------------------------------
(* Numbers *)

HoursPerDay == 24

NaN == [nan |-> TRUE, mant |-> 0, scale |-> 0]
Num(m, s) == [nan |-> FALSE, mant |-> m, scale |-> s]

RECURSIVE Pow10(_)
Pow10(n) == IF n = 0 THEN 1 ELSE 10 * Pow10(n - 1)

IsDigit(c) == c \in {"0", "1", "2", "3", "4", "5", "6", "7", "8", "9"}

DigitVal(c) ==
  CASE c = "0" -> 0 [] c = "1" -> 1 [] c = "2" -> 2 [] c = "3" -> 3 [] c = "4" -> 4
    [] c = "5" -> 5 [] c = "6" -> 6 [] c = "7" -> 7 [] c = "8" -> 8 [] c = "9" -> 9

RECURSIVE DigitsVal(_)
DigitsVal(ds) ==
  IF ds = <<>> THEN 0
  ELSE DigitsVal(SubSeq(ds, 1, Len(ds) - 1)) * 10 + DigitVal(ds[Len(ds)])

\* Number(string): the empty string is 0; otherwise an optional sign, then
\* digits with at most one point and at least one digit; anything else is NaN.
StringToNumber(s) ==
  IF s = <<>> THEN Num(0, 0)
  ELSE LET signed == Head(s) \in {"-", "+"}
           body == IF signed THEN Tail(s) ELSE s
           dots == {i \in 1..Len(body) : body[i] = "."}
           wellFormed == /\ \A i \in 1..Len(body) : body[i] = "." \/ IsDigit(body[i])
                         /\ Cardinality(dots) <= 1
                         /\ \E i \in 1..Len(body) : IsDigit(body[i])
           mant == DigitsVal(SelectSeq(body, IsDigit))
           scale == IF dots = {} THEN 0 ELSE Len(body) - (CHOOSE i \in dots : TRUE)
       IN IF ~wellFormed THEN NaN
          ELSE Num(IF Head(s) = "-" THEN 0 - mant ELSE mant, scale)

\* Number(null) is 0
Number(v) == IF v.isNull THEN Num(0, 0) ELSE StringToNumber(v.s)

Times100(n) == Num(n.mant * 100, n.scale)

IsInteger(n) == ~n.nan /\ n.mant % Pow10(n.scale) = 0

NumEq(a, b) == ~a.nan /\ ~b.nan /\ a.mant * Pow10(b.scale) = b.mant * Pow10(a.scale)

----------------------------------------------------------------------------
(* The date of new invoices *)

\* new Date().toISOString(): "<date>T<time>Z", in UTC
ToISOString(t) == <<ToString(t \div HoursPerDay), "T", ToString(t % HoursPerDay), "Z">>

RECURSIVE Split(_, _)
Split(s, sep) ==
  IF \A i \in 1..Len(s) : s[i] # sep THEN <<s>>
  ELSE LET i == CHOOSE j \in 1..Len(s) : s[j] = sep /\ \A k \in 1..(j - 1) : s[k] # sep
       IN <<SubSeq(s, 1, i - 1)>> \o Split(SubSeq(s, i + 1, Len(s)), sep)

----------------------------------------------------------------------------
(* The schemas.  Each field check answers the list of its issue messages,  *)
(* empty when the field is accepted.                                       *)

PleaseSelectCustomer == "Please select a customer."
PleaseEnterAmount == "Please enter an amount greater than $0."
PleaseSelectStatus == "Please select an invoice status."
PleaseEnterName == "Please enter the name."
ExpectedStringReceivedNull == "Expected string, received null"
ExpectedNumberReceivedNan == "Expected number, received nan"
InvalidEmail == "Invalid email"

StatusOptions == {"pending", "paid"}

\* The library's message for a string outside the enumeration; it has no
\* parameter of the schema in it but the options and the value received.
InvalidEnumValue(s) ==
  CASE s = "x" -> "Invalid enum value. Expected 'pending' | 'paid', received 'x'"
    [] s = "" -> "Invalid enum value. Expected 'pending' | 'paid', received ''"
    [] OTHER -> "Invalid enum value."

\* z.string({invalid_type_error}): any string passes, the empty one too
ZodString(v, invalid_type_error) ==
  IF v.isNull THEN <<invalid_type_error>> ELSE <<>>

\* z.coerce.number().gte(0, {message}) in the place of gt
ZodCoerceNumberGt_gte(v, message) ==
  LET n == Number(v)
  IN IF n.nan THEN <<ExpectedNumberReceivedNan>>
     ELSE IF n.mant < 0 THEN <<message>> ELSE <<>>

\* z.coerce.number().gt(0, {message})
ZodCoerceNumberGt(v, message) ==
  LET n == Number(v)
  IN IF n.nan THEN <<ExpectedNumberReceivedNan>>
     ELSE IF n.mant <= 0 THEN <<message>> ELSE <<>>

\* z.enum(options, {invalid_type_error}): invalid_type_error is the message
\* of a value that is no string; a string outside the options gets the
\* library's own message.
ZodEnum(v, options, invalid_type_error) ==
  IF v.isNull THEN <<invalid_type_error>>
  ELSE IF v.s \notin options THEN <<InvalidEnumValue(v.s)>> ELSE <<>>

\* z.string().min(1, message)
ZodStringMin1(v, message) ==
  IF v.isNull THEN <<ExpectedStringReceivedNull>>
  ELSE IF v.s = "" THEN <<message>> ELSE <<>>

IsLetter(c) == c \in {"a"}
IsAlnum(c) == IsLetter(c) \/ IsDigit(c)

\* /^(?!\.)(?!.*\.\.)([A-Z0-9_'+\-\.]*)[A-Z0-9_+-]@([A-Z0-9][A-Z0-9\-]*\.)+[A-Z]{2,}$/i
EmailRegex(s) ==
  LET ats == {i \in 1..Len(s) : s[i] = "@"}
  IN /\ Cardinality(ats) = 1
     /\ s[1] # "."
     /\ \A i \in 1..(Len(s) - 1) : ~(s[i] = "." /\ s[i + 1] = ".")
     /\ LET at == CHOOSE i \in ats : TRUE
            local == SubSeq(s, 1, at - 1)
            labels == Split(SubSeq(s, at + 1, Len(s)), ".")
            tld == labels[Len(labels)]
        IN /\ Len(local) >= 1
           /\ \A i \in 1..Len(local) : IsAlnum(local[i]) \/ local[i] \in {"_", "'", "+", "-", "."}
           /\ IsAlnum(local[Len(local)]) \/ local[Len(local)] \in {"_", "+", "-"}
           /\ Len(labels) >= 2
           /\ \A k \in 1..(Len(labels) - 1) :
                /\ Len(labels[k]) >= 1
                /\ IsAlnum(labels[k][1])
                /\ \A i \in 1..Len(labels[k]) : IsAlnum(labels[k][i]) \/ labels[k][i] = "-"
           /\ Len(tld) >= 2
           /\ \A i \in 1..Len(tld) : IsLetter(tld[i])

\* z.string().email()
ZodStringEmail(v) ==
  IF v.isNull THEN <<ExpectedStringReceivedNull>>
  ELSE IF ~EmailRegex(v.s) THEN <<InvalidEmail>> ELSE <<>>

\* FormSchema without id and date
FormSchema(raw) ==
  [customerId |-> ZodString(raw.customerId, PleaseSelectCustomer),
   amount |-> ZodCoerceNumberGt(raw.amount, PleaseEnterAmount),
   status |-> ZodEnum(raw.status, StatusOptions, PleaseSelectStatus)]

AddCustomerSchema(raw) ==
  [name |-> ZodStringMin1(raw.name, PleaseEnterName),
   email |-> ZodStringEmail(raw.email)]

\* error.flatten().fieldErrors: the fields that have issues, with their messages
FieldErrors(issues) ==
  [f \in {g \in DOMAIN issues : issues[g] # <<>>} |-> issues[f]]

Success(issues) == \A f \in DOMAIN issues : issues[f] = <<>>

\* CreateInvoice.safeParse and UpdateInvoice.safeParse
CreateInvoice(raw) ==
  LET issues == FormSchema(raw)
  IN IF Success(issues)
     THEN [success |-> TRUE,
           data |-> [customerId |-> raw.customerId.s,
                     amount |-> Number(raw.amount),
                     status |-> raw.status.s]]
     ELSE [success |-> FALSE, fieldErrors |-> FieldErrors(issues)]

UpdateInvoice(raw) == CreateInvoice(raw)

AddCustomer(raw) ==
  LET issues == AddCustomerSchema(raw)
  IN IF Success(issues)
     THEN [success |-> TRUE, data |-> [name |-> raw.name.s, email |-> raw.email.s]]
     ELSE [success |-> FALSE, fieldErrors |-> FieldErrors(issues)]

----------------------------------------------------------------------------
(* Collaborators: the calls a handler makes, and how a call can end *)

\* a statement, its bound parameters, and how the awaited call ended
Sql(text, params, outcome) ==
  [op |-> "sql", text |-> text, params |-> params, outcome |-> outcome]
ConsoleError(e) == [op |-> "console.error", arg |-> e]
RevalidatePath(path) == [op |-> "revalidatePath", path |-> path]
Redirect(path) == [op |-> "redirect", path |-> path]
SignIn(provider, outcome) == [op |-> "signIn", provider |-> provider, outcome |-> outcome]

\* redirect(path) ends by throwing this signal
RedirectSignal(path) == [name |-> "NEXT_REDIRECT", path |-> path]

\* an awaited call resolves, or rejects with an error
Resolved == [name |-> "resolved"]

\* the awaited statement resolves or rejects with an error of the store
DbErrors == {[name |-> "PostgresError", code |-> "23503"],
             [name |-> "PostgresError", code |-> "23505"],
             [name |-> "Error", code |-> "CONNECTION_CLOSED"]}
DbOutcomes == {Resolved} \cup DbErrors

\* signIn returns, or throws an AuthError of some type, or throws anything
\* else (its own redirect signal after a successful sign-in among them)
AuthErrors == {[name |-> "AuthError", type |-> t] :
                 t \in {"CredentialsSignin", "CallbackRouteError", "AccessDenied"}}
OtherErrors == {RedirectSignal("/dashboard"), [name |-> "TypeError", type |-> "fetch failed"]}
SignInOutcomes == {Resolved} \cup AuthErrors \cup OtherErrors

InstanceOfAuthError(error) == error.name = "AuthError"

Return(value) == [kind |-> "return", value |-> value]
ReturnUndefined == [kind |-> "return undefined"]
Throw(error) == [kind |-> "throw", error |-> error]
Pending == [kind |-> "pending"]

InvoicesPath == "/dashboard/invoices"
CustomersPath == "/dashboard/customers"
AvatarPlaceholder == "/customers/avatar-placeholder.webp"

----------------------------------------------------------------------------
(* The requests *)

Requests ==
  [handler : {"createInvoice"}, formData : InvoiceForms]
    \cup [handler : {"updateInvoice"}, id : Ids, formData : InvoiceForms]
    \cup [handler : {"addCustomer"}, formData : CustomerForms]
    \cup [handler : {"deleteInvoice", "deleteCustomer"}, id : Ids]
    \cup [handler : {"authenticate"}]

Init ==
  /\ pc = "pending"
  /\ request \in Requests
  /\ now = 0
  /\ effects = <<>>
  /\ result = Pending

\* time passes between the submission and the handler's run
Tick ==
  /\ pc = "pending"
  /\ now + HoursPerDay \div 2 <= MaxClock
  /\ now' = now + HoursPerDay \div 2
  /\ UNCHANGED <<pc, request, effects, result>>

----------------------------------------------------------------------------
(* The handlers *)

\* createInvoice with revalidatePath and redirect moved into the try block
createInvoice_redirectInTry ==
  /\ pc = "pending"
  /\ request.handler = "createInvoice"
  /\ \E db \in DbOutcomes :
       LET rawFormData == [customerId |-> FormDataGet(request.formData, "customerId"),
                           amount |-> FormDataGet(request.formData, "amount"),
                           status |-> FormDataGet(request.formData, "status")]
           validatedFields == CreateInvoice(rawFormData)
       IN IF ~validatedFields.success
          THEN /\ effects' = <<>>
               /\ result' = Return([errors |-> validatedFields.fieldErrors,
                                    values |-> rawFormData,
                                    message |-> "Missing Fields. Failed to Create Invoice."])
          ELSE LET customerId == validatedFields.data.customerId
                   amountInCents == Times100(validatedFields.data.amount)
                   status == validatedFields.data.status
                   date == Split(ToISOString(now), "T")[1]
                   insert == Sql("INSERT INTO invoices",
                                 [customer_id |-> customerId, amount |-> amountInCents,
                                  status |-> status, date |-> date], db)
               IN IF db # Resolved
                  THEN /\ effects' = <<insert, ConsoleError(db)>>
                       /\ result' = Return([values |-> rawFormData,
                                            message |-> "Database Error: Failed to Create Invoice."])
                  ELSE /\ effects' = <<insert, RevalidatePath(InvoicesPath), Redirect(InvoicesPath),
                                      ConsoleError(RedirectSignal(InvoicesPath))>>
                       /\ result' = Return([values |-> rawFormData,
                                            message |-> "Database Error: Failed to Create Invoice."])
  /\ pc' = "done"
  /\ UNCHANGED <<request, now>>

createInvoice ==
  /\ pc = "pending"
  /\ request.handler = "createInvoice"
  /\ \E db \in DbOutcomes :
       LET rawFormData == [customerId |-> FormDataGet(request.formData, "customerId"),
                           amount |-> FormDataGet(request.formData, "amount"),
                           status |-> FormDataGet(request.formData, "status")]
           validatedFields == CreateInvoice(rawFormData)
       IN IF ~validatedFields.success
          THEN /\ effects' = <<>>
               /\ result' = Return([errors |-> validatedFields.fieldErrors,
                                    values |-> rawFormData,
                                    message |-> "Missing Fields. Failed to Create Invoice."])
          ELSE LET customerId == validatedFields.data.customerId
                   amountInCents == Times100(validatedFields.data.amount)
                   status == validatedFields.data.status
                   date == Split(ToISOString(now), "T")[1]
                   insert == Sql("INSERT INTO invoices",
                                 [customer_id |-> customerId, amount |-> amountInCents,
                                  status |-> status, date |-> date], db)
               IN IF db # Resolved
                  THEN /\ effects' = <<insert, ConsoleError(db)>>
                       /\ result' = Return([values |-> rawFormData,
                                            message |-> "Database Error: Failed to Create Invoice."])
                  ELSE /\ effects' = <<insert, RevalidatePath(InvoicesPath), Redirect(InvoicesPath)>>
                       /\ result' = Throw(RedirectSignal(InvoicesPath))
  /\ pc' = "done"
  /\ UNCHANGED <<request, now>>

\* updateInvoice whose catch block logs and does not return
updateInvoice_catchFallsThrough ==
  /\ pc = "pending"
  /\ request.handler = "updateInvoice"
  /\ \E db \in DbOutcomes :
       LET id == request.id
           rawFormData == [customerId |-> FormDataGet(request.formData, "customerId"),
                           amount |-> FormDataGet(request.formData, "amount"),
                           status |-> FormDataGet(request.formData, "status")]
           validatedFields == UpdateInvoice(rawFormData)
       IN IF ~validatedFields.success
          THEN /\ effects' = <<>>
               /\ result' = Return([errors |-> validatedFields.fieldErrors,
                                    values |-> rawFormData,
                                    message |-> "Missing Fields. Failed to Update Invoice."])
          ELSE LET customerId == validatedFields.data.customerId
                   amountInCents == Times100(validatedFields.data.amount)
                   status == validatedFields.data.status
                   update == Sql("UPDATE invoices",
                                 [customer_id |-> customerId, amount |-> amountInCents,
                                  status |-> status, id |-> id], db)
               IN IF db # Resolved
                  THEN /\ effects' = <<update, ConsoleError(db),
                                      RevalidatePath(InvoicesPath), Redirect(InvoicesPath)>>
                       /\ result' = Throw(RedirectSignal(InvoicesPath))
                  ELSE /\ effects' = <<update, RevalidatePath(InvoicesPath), Redirect(InvoicesPath)>>
                       /\ result' = Throw(RedirectSignal(InvoicesPath))
  /\ pc' = "done"
  /\ UNCHANGED <<request, now>>

updateInvoice ==
  /\ pc = "pending"
  /\ request.handler = "updateInvoice"
  /\ \E db \in DbOutcomes :
       LET id == request.id
           rawFormData == [customerId |-> FormDataGet(request.formData, "customerId"),
                           amount |-> FormDataGet(request.formData, "amount"),
                           status |-> FormDataGet(request.formData, "status")]
           validatedFields == UpdateInvoice(rawFormData)
       IN IF ~validatedFields.success
          THEN /\ effects' = <<>>
               /\ result' = Return([errors |-> validatedFields.fieldErrors,
                                    values |-> rawFormData,
                                    message |-> "Missing Fields. Failed to Update Invoice."])
          ELSE LET customerId == validatedFields.data.customerId
                   amountInCents == Times100(validatedFields.data.amount)
                   status == validatedFields.data.status
                   update == Sql("UPDATE invoices",
                                 [customer_id |-> customerId, amount |-> amountInCents,
                                  status |-> status, id |-> id], db)
               IN IF db # Resolved
                  THEN /\ effects' = <<update, ConsoleError(db)>>
                       /\ result' = Return([values |-> rawFormData,
                                            message |-> "Database Error: Failed to Update Invoice."])
                  ELSE /\ effects' = <<update, RevalidatePath(InvoicesPath), Redirect(InvoicesPath)>>
                       /\ result' = Throw(RedirectSignal(InvoicesPath))
  /\ pc' = "done"
  /\ UNCHANGED <<request, now>>

\* deleteInvoice ending with redirect, as the create and update handlers do
deleteInvoice_redirects ==
  /\ pc = "pending"
  /\ request.handler = "deleteInvoice"
  /\ \E db \in DbOutcomes :
       LET delete == Sql("DELETE FROM invoices", [id |-> request.id], db)
       IN IF db # Resolved
          THEN /\ effects' = <<delete>>
               /\ result' = Throw(db)
          ELSE /\ effects' = <<delete, RevalidatePath(InvoicesPath), Redirect(InvoicesPath)>>
               /\ result' = Throw(RedirectSignal(InvoicesPath))
  /\ pc' = "done"
  /\ UNCHANGED <<request, now>>

deleteInvoice ==
  /\ pc = "pending"
  /\ request.handler = "deleteInvoice"
  /\ \E db \in DbOutcomes :
       LET delete == Sql("DELETE FROM invoices", [id |-> request.id], db)
       IN IF db # Resolved
          THEN /\ effects' = <<delete>>
               /\ result' = Throw(db)
          ELSE /\ effects' = <<delete, RevalidatePath(InvoicesPath)>>
               /\ result' = ReturnUndefined
  /\ pc' = "done"
  /\ UNCHANGED <<request, now>>

\* addCustomer answering a validation failure without the submitted values
addCustomer_noValues ==
  /\ pc = "pending"
  /\ request.handler = "addCustomer"
  /\ \E db \in DbOutcomes :
       LET rawFormData == [name |-> FormDataGet(request.formData, "name"),
                           email |-> FormDataGet(request.formData, "email")]
           validatedFields == AddCustomer(rawFormData)
       IN IF ~validatedFields.success
          THEN /\ effects' = <<>>
               /\ result' = Return([errors |-> validatedFields.fieldErrors,
                                    message |-> "Missing Fields. Failed to Add Customer."])
          ELSE LET name == validatedFields.data.name
                   email == validatedFields.data.email
                   imageUrl == AvatarPlaceholder
                   insert == Sql("INSERT INTO customers",
                                 [name |-> name, email |-> email, image_url |-> imageUrl], db)
               IN IF db # Resolved
                  THEN /\ effects' = <<insert, ConsoleError(db)>>
                       /\ result' = Return([values |-> rawFormData,
                                            message |-> "Database Error: Failed to Add Customer."])
                  ELSE /\ effects' = <<insert, RevalidatePath(CustomersPath), Redirect(CustomersPath)>>
                       /\ result' = Throw(RedirectSignal(CustomersPath))
  /\ pc' = "done"
  /\ UNCHANGED <<request, now>>

addCustomer ==
  /\ pc = "pending"
  /\ request.handler = "addCustomer"
  /\ \E db \in DbOutcomes :
       LET rawFormData == [name |-> FormDataGet(request.formData, "name"),
                           email |-> FormDataGet(request.formData, "email")]
           validatedFields == AddCustomer(rawFormData)
       IN IF ~validatedFields.success
          THEN /\ effects' = <<>>
               /\ result' = Return([errors |-> validatedFields.fieldErrors,
                                    values |-> rawFormData,
                                    message |-> "Missing Fields. Failed to Add Customer."])
          ELSE LET name == validatedFields.data.name
                   email == validatedFields.data.email
                   imageUrl == AvatarPlaceholder
                   insert == Sql("INSERT INTO customers",
                                 [name |-> name, email |-> email, image_url |-> imageUrl], db)
               IN IF db # Resolved
                  THEN /\ effects' = <<insert, ConsoleError(db)>>
                       /\ result' = Return([values |-> rawFormData,
                                            message |-> "Database Error: Failed to Add Customer."])
                  ELSE /\ effects' = <<insert, RevalidatePath(CustomersPath), Redirect(CustomersPath)>>
                       /\ result' = Throw(RedirectSignal(CustomersPath))
  /\ pc' = "done"
  /\ UNCHANGED <<request, now>>

\* deleteCustomer with the statement in a try block, as in the other handlers
deleteCustomer_catches ==
  /\ pc = "pending"
  /\ request.handler = "deleteCustomer"
  /\ \E db \in DbOutcomes :
       LET delete == Sql("DELETE FROM customers", [id |-> request.id], db)
       IN IF db # Resolved
          THEN /\ effects' = <<delete, ConsoleError(db)>>
               /\ result' = Return([message |-> "Database Error: Failed to Delete Customer."])
          ELSE /\ effects' = <<delete, RevalidatePath(CustomersPath)>>
               /\ result' = ReturnUndefined
  /\ pc' = "done"
  /\ UNCHANGED <<request, now>>

deleteCustomer ==
  /\ pc = "pending"
  /\ request.handler = "deleteCustomer"
  /\ \E db \in DbOutcomes :
       LET delete == Sql("DELETE FROM customers", [id |-> request.id], db)
       IN IF db # Resolved
          THEN /\ effects' = <<delete>>
               /\ result' = Throw(db)
          ELSE /\ effects' = <<delete, RevalidatePath(CustomersPath)>>
               /\ result' = ReturnUndefined
  /\ pc' = "done"
  /\ UNCHANGED <<request, now>>

\* authenticate without the throw that ends its catch block
authenticate_swallows ==
  /\ pc = "pending"
  /\ request.handler = "authenticate"
  /\ \E signIn \in SignInOutcomes :
       /\ effects' = <<SignIn("credentials", signIn)>>
       /\ IF signIn = Resolved
          THEN result' = ReturnUndefined
          ELSE LET error == signIn
               IN IF InstanceOfAuthError(error)
                  THEN IF error.type = "CredentialsSignin"
                       THEN result' = Return("Invalid credentials.")
                       ELSE result' = Return("Something went wrong.")
                  ELSE result' = ReturnUndefined
  /\ pc' = "done"
  /\ UNCHANGED <<request, now>>

authenticate ==
  /\ pc = "pending"
  /\ request.handler = "authenticate"
  /\ \E signIn \in SignInOutcomes :
       /\ effects' = <<SignIn("credentials", signIn)>>
       /\ IF signIn = Resolved
          THEN result' = ReturnUndefined
          ELSE LET error == signIn
               IN IF InstanceOfAuthError(error)
                  THEN IF error.type = "CredentialsSignin"
                       THEN result' = Return("Invalid credentials.")
                       ELSE result' = Return("Something went wrong.")
                  ELSE result' = Throw(error)
  /\ pc' = "done"
  /\ UNCHANGED <<request, now>>

Next ==
  \/ Tick
  \/ createInvoice
  \/ updateInvoice
  \/ deleteInvoice
  \/ addCustomer
  \/ deleteCustomer
  \/ authenticate

Spec == Init /\ [][Next]_vars

----------------------------------------------------------------------------
(* Vocabulary of the properties *)

FormHandlers == {"createInvoice", "updateInvoice", "addCustomer"}
InvoiceHandlers == {"createInvoice", "updateInvoice"}
DeleteHandlers == {"deleteInvoice", "deleteCustomer"}

Done(h) == pc = "done" /\ request.handler = h

\* the verdict of the handler's schema on the submitted fields
Validated(h) ==
  IF h = "addCustomer" THEN AddCustomer(request.formData) ELSE CreateInvoice(request.formData)

MissingFieldsMessage(h) ==
  CASE h = "createInvoice" -> "Missing Fields. Failed to Create Invoice."
    [] h = "updateInvoice" -> "Missing Fields. Failed to Update Invoice."
    [] h = "addCustomer" -> "Missing Fields. Failed to Add Customer."

DatabaseErrorMessage(h) ==
  CASE h = "createInvoice" -> "Database Error: Failed to Create Invoice."
    [] h = "updateInvoice" -> "Database Error: Failed to Update Invoice."
    [] h = "addCustomer" -> "Database Error: Failed to Add Customer."

ListingPath(h) ==
  IF h \in {"addCustomer", "deleteCustomer"} THEN "/dashboard/customers" ELSE "/dashboard/invoices"

Ops(ops) == {i \in 1..Len(effects) : effects[i].op \in ops}

NoSideEffect == Ops({"sql", "revalidatePath", "redirect"}) = {}

Messages(list) == {list[i] : i \in 1..Len(list)}

\* the persistence call of a form handler was made and raised / succeeded
PersistenceRaised == Len(effects) >= 1 /\ effects[1].op = "sql" /\ effects[1].outcome # Resolved
PersistenceSucceeded == Len(effects) >= 1 /\ effects[1].op = "sql" /\ effects[1].outcome = Resolved

----------------------------------------------------------------------------
(* C1.  When the submitted fields fail the schema, createInvoice,          *)
(* updateInvoice and addCustomer return {errors, values, message}: values  *)
(* is the submitted raw fields unchanged, errors holds a non-empty list of *)
(* messages for each failing field, message is the handler's "Missing      *)
(* Fields" text; no statement is issued, nothing is invalidated, no        *)
(* navigation signal is raised.                                            *)
C1_ValidationFailureIsTerminal ==
  \A h \in FormHandlers :
    (Done(h) /\ ~Validated(h).success) =>
      /\ result.kind = "return"
      /\ DOMAIN result.value = {"errors", "values", "message"}
      /\ result.value.values = request.formData
      /\ result.value.errors = Validated(h).fieldErrors
      /\ DOMAIN result.value.errors # {}
      /\ \A f \in DOMAIN result.value.errors : result.value.errors[f] # <<>>
      /\ result.value.message = MissingFieldsMessage(h)
      /\ NoSideEffect
      /\ effects = <<>>

C1_Witness ==
  /\ Done("addCustomer")
  /\ request.formData.name = Str("")
  /\ request.formData.email = Str(<<"a", "@", "a">>)
  /\ result.kind = "return"
  /\ DOMAIN result.value.errors = {"name", "email"}

(* C2.  When validation succeeds and the persistence call raises, the      *)
(* three form handlers return exactly {values, message}: the submitted raw *)
(* fields and the handler's generic "Database Error" text, nothing of the  *)
(* store's error and no errors map; the error is logged; the cache is not  *)
(* invalidated and no navigation signal is raised.                         *)
C2_PersistenceFailureIsGeneric ==
  \A h \in FormHandlers :
    (Done(h) /\ Validated(h).success /\ PersistenceRaised) =>
      /\ result = Return([values |-> request.formData, message |-> DatabaseErrorMessage(h)])
      /\ DOMAIN result.value = {"values", "message"}
      /\ Ops({"sql"}) = {1}
      /\ effects = <<effects[1], ConsoleError(effects[1].outcome)>>
      /\ Ops({"revalidatePath", "redirect"}) = {}

C2_Witness ==
  /\ Done("updateInvoice")
  /\ PersistenceRaised
  /\ effects[1].outcome.code = "23503"
  /\ result.kind = "return"
  /\ result.value.message = "Database Error: Failed to Update Invoice."

(* C3.  When validation succeeds and the persistence call succeeds, the    *)
(* three form handlers make exactly three calls in this order: the one     *)
(* statement, revalidatePath of the listing path, redirect to the same     *)
(* path; the handler ends with the navigation signal, not with a state.    *)
C3_PostCommitOrder ==
  \A h \in FormHandlers :
    (Done(h) /\ Validated(h).success /\ PersistenceSucceeded) =>
      /\ Len(effects) = 3
      /\ Ops({"sql"}) = {1}
      /\ effects[2] = RevalidatePath(ListingPath(h))
      /\ effects[3] = Redirect(ListingPath(h))
      /\ result = Throw(RedirectSignal(ListingPath(h)))

C3_Witness ==
  /\ Done("createInvoice")
  /\ PersistenceSucceeded
  /\ effects[1].text = "INSERT INTO invoices"
  /\ result.kind = "throw"
  /\ result.error.name = "NEXT_REDIRECT"

(* C4.  Submitting {customerId: "", amount: "-5", status: "x"} to          *)
(* createInvoice returns a non-empty error list for each of customerId,    *)
(* amount and status, values equal to the input, and has no side effect.   *)
C4_EmptyCustomerRejected ==
  (/\ Done("createInvoice")
   /\ request.formData = [customerId |-> Str(""), amount |-> Str(<<"-", "5">>), status |-> Str("x")])
  =>
    /\ result.kind = "return"
    /\ "errors" \in DOMAIN result.value
    /\ \A f \in {"customerId", "amount", "status"} :
         f \in DOMAIN result.value.errors /\ result.value.errors[f] # <<>>
    /\ result.value.values = request.formData
    /\ NoSideEffect

(* C5.  In createInvoice and updateInvoice a status that is missing or is  *)
(* anything but "pending" or "paid" fails validation, and the status entry *)
(* of the errors carries "Please select an invoice status."                *)
C5_StatusCustomMessage ==
  \A h \in InvoiceHandlers :
    (/\ Done(h)
     /\ request.formData.status.isNull \/ request.formData.status.s \notin {"pending", "paid"})
    =>
      /\ result.kind = "return"
      /\ "errors" \in DOMAIN result.value
      /\ "status" \in DOMAIN result.value.errors
      /\ "Please select an invoice status." \in Messages(result.value.errors.status)

(* C6.  In createInvoice and updateInvoice an amount that coerces to a     *)
(* number <= 0 (a missing or an empty amount coerces to 0) fails           *)
(* validation: the amount entry of the errors contains "Please enter an    *)
(* amount greater than $0." and no statement is issued, whatever           *)
(* customerId and status are.                                              *)
AmountNotPositive(v) ==
  \/ v.isNull
  \/ v.s = <<>>
  \/ LET n == Number(v) IN ~n.nan /\ n.mant <= 0

C6_NonPositiveAmountRejected ==
  \A h \in InvoiceHandlers :
    (Done(h) /\ AmountNotPositive(request.formData.amount)) =>
      /\ result.kind = "return"
      /\ "errors" \in DOMAIN result.value
      /\ "amount" \in DOMAIN result.value.errors
      /\ "Please enter an amount greater than $0." \in Messages(result.value.errors.amount)
      /\ Ops({"sql"}) = {}

C6_Witness ==
  /\ Done("updateInvoice")
  /\ request.formData = [customerId |-> Str("c1"), amount |-> Str(<<>>), status |-> Str("paid")]
  /\ result.kind = "return"
  /\ DOMAIN result.value.errors = {"amount"}

(* C7.  For every valid invoice input the amount bound into the statement  *)
(* of createInvoice and of updateInvoice is the submitted amount times 100 *)
(* and is an integer; createInvoice binds the current date (UTC) at the    *)
(* time of the call, updateInvoice binds no date.                          *)
C7_AmountInIntegerCents ==
  \A h \in InvoiceHandlers :
    (Done(h) /\ Validated(h).success) =>
      /\ Ops({"sql"}) = {1}
      /\ LET submitted == Number(request.formData.amount)
             bound == effects[1].params.amount
         IN /\ NumEq(bound, Num(submitted.mant * 100, submitted.scale))
            /\ IsInteger(bound)
      /\ h = "createInvoice" => effects[1].params.date = <<ToString(now \div HoursPerDay)>>
      /\ h = "updateInvoice" => "date" \notin DOMAIN effects[1].params

(* C8.  authenticate maps each outcome of signIn to one result: an         *)
(* AuthError of type CredentialsSignin to "Invalid credentials.", any      *)
(* other AuthError to "Something went wrong.", any other error (the        *)
(* navigation signal of a successful sign-in included) to the same error   *)
(* thrown again, and a normal return to no return value.                   *)
C8_AuthenticateMapping ==
  Done("authenticate") =>
    /\ Len(effects) = 1
    /\ effects[1].op = "signIn"
    /\ LET outcome == effects[1].outcome
       IN CASE outcome.name = "resolved" -> result.kind = "return undefined"
            [] outcome.name = "AuthError" ->
                 /\ result.kind = "return"
                 /\ result.value = IF outcome.type = "CredentialsSignin"
                                   THEN "Invalid credentials."
                                   ELSE "Something went wrong."
            [] OTHER -> result.kind = "throw" /\ result.error = outcome

C8_Witness ==
  /\ Done("authenticate")
  /\ effects[1].outcome.name = "NEXT_REDIRECT"
  /\ result.kind = "throw"
  /\ result.error.name = "NEXT_REDIRECT"

(* C9.  deleteInvoice and deleteCustomer do not validate the identifier:   *)
(* for every identifier, when the statement succeeds the handler has made  *)
(* exactly two calls, the one DELETE for that identifier and then          *)
(* revalidatePath of the listing path, and has raised no navigation        *)
(* signal.                                                                 *)
C9_DeleteThenInvalidate ==
  \A h \in DeleteHandlers :
    /\ Done(h) => (Len(effects) >= 1 /\ effects[1].op = "sql"
                     /\ effects[1].params = [id |-> request.id])
    /\ (Done(h) /\ PersistenceSucceeded) =>
         /\ effects[1].text = (IF h = "deleteInvoice" THEN "DELETE FROM invoices"
                                                      ELSE "DELETE FROM customers")
         /\ effects = <<effects[1], RevalidatePath(ListingPath(h))>>
         /\ result.kind = "return undefined"

C9_Witness ==
  /\ Done("deleteCustomer")
  /\ request.id = ""
  /\ PersistenceSucceeded
  /\ Len(effects) = 2
  /\ effects[2].op = "revalidatePath"

(* C10.  When the DELETE of deleteInvoice or deleteCustomer raises, the    *)
(* handler ends by throwing that same error: it returns no state and the   *)
(* listing path is not invalidated.                                        *)
C10_DeleteErrorPropagates ==
  \A h \in DeleteHandlers :
    (Done(h) /\ PersistenceRaised) =>
      /\ result = Throw(effects[1].outcome)
      /\ effects = <<effects[1]>>
      /\ Ops({"revalidatePath", "redirect", "console.error"}) = {}

C10_Witness ==
  /\ Done("deleteInvoice")
  /\ PersistenceRaised
  /\ result.kind = "throw"
  /\ result.error.name = "PostgresError"

====
